---- MODULE Spec2Model ----
(***************************************************************************)
(* Puerto Rico helper: the move advisor (recommendMoves and its scoring    *)
(* helpers) and the session/turn tracker (applyChosenMove,                 *)
(* applyOpponentLastRole, syncDoubloonsToGovernor) of the richest variant  *)
(* of the page script.                                                     *)
(*                                                                         *)
(* Scores are kept in tenths (3.1 is 31): every constant of the script is  *)
(* a multiple of 0.1, so the tenths are exact integers.  A value that the  *)
(* script holds as null, undefined or "" is the empty string here (the     *)
(* script itself folds the three together with `x || ""`).                 *)
(***************************************************************************)
EXTENDS Integers, Sequences, FiniteSets, TLC

\* ---------------------------------------------------------------- bounds
MaxApplied == 3     \* moves and resets explored after page load, any panel choice
MaxRound == 7       \* moves and resets explored after page load, role-only choices
MaxQuarries == 4    \* quarries a scored board holds at most
MaxFeedback == 2    \* manual affirmations explored between resets

\* ------------------------------------------------------- program constants
QuarrySupply == 5   \* quarriesRemainingInput.value = "5"
RoundComplete == 7  \* Math.min(turnInRound + 1, 7)
ShownCount == 3     \* recs.slice(0, 3)

NoValue == ""
None == "None"
Quarry == "Quarry"

\* ------------------------------------------------------------- catalog
BUILDINGS ==
  << [name |-> "Small Indigo Plant", type |-> "production", crop |-> "Indigo", cost |-> 1, baseValue |-> 30],
     [name |-> "Small Sugar Mill",   type |-> "production", crop |-> "Sugar",  cost |-> 2, baseValue |-> 32],
     [name |-> "Small Market",       type |-> "violet",     crop |-> NoValue,  cost |-> 1, baseValue |-> 25],
     [name |-> "Hacienda",           type |-> "violet",     crop |-> NoValue,  cost |-> 2, baseValue |-> 28] >>

\* mutant: the cost map charges twice the cost the scoring catalog lists
CostsDoubled(name) ==
  LET listed == { i \in 1..Len(BUILDINGS) : BUILDINGS[i].name = name }
  IN IF listed = {} THEN 0 ELSE 2 * BUILDINGS[CHOOSE i \in listed : TRUE].cost

\* BUILDING_COSTS[name] || 0
BUILDING_COSTS(name) ==
  CASE name = "Small Indigo Plant" -> 1
    [] name = "Small Sugar Mill" -> 2
    [] name = "Indigo Plant" -> 3
    [] name = "Sugar Mill" -> 4
    [] name = "Tobacco Storage" -> 5
    [] name = "Coffee Roaster" -> 6
    [] name = "Small Market" -> 1
    [] name = "Hacienda" -> 2
    [] name = "Construction Hut" -> 2
    [] name = "Small Warehouse" -> 3
    [] name = "Hospice" -> 4
    [] name = "Office" -> 5
    [] name = "Large Market" -> 5
    [] name = "Large Warehouse" -> 6
    [] name = "University" -> 8
    [] name = "Factory" -> 7
    [] name = "Harbor" -> 8
    [] name = "Wharf" -> 9
    [] name \in {"Guild Hall", "Residence", "Fortress", "Customs House", "City Hall"} -> 10
    [] name = "Other" -> 0
    [] OTHER -> 0

\* PLANTATION_VALUES_BASE[plantation] || 0
PLANTATION_VALUES_BASE(plantation) ==
  CASE plantation = "Corn" -> 31
    [] plantation = "Sugar" -> 28
    [] plantation = "Indigo" -> 18
    [] plantation = "Tobacco" -> 24
    [] plantation = "Coffee" -> 23
    [] OTHER -> 0

\* the keys of PLANTATION_VALUES_BASE
PlantationTypes == { "Corn", "Sugar", "Indigo", "Tobacco", "Coffee" }

\* The role checkboxes, in document order.
RoleOrder == << "Settler", "Mayor", "Builder", "Craftsman", "Trader", "Captain", "Prospector" >>
Roles == { RoleOrder[i] : i \in 1..Len(RoleOrder) }

\* ------------------------------------------------------ sequence helpers
Range(s) == { s[i] : i \in 1..Len(s) }

RECURSIVE SelectIdx(_, _)
\* Array.prototype.filter over the indices of s kept by Keep(_), in order
SelectIdx(s, keep) ==
  IF s = << >> THEN << >>
  ELSE LET rest == SelectIdx(SubSeq(s, 1, Len(s) - 1), keep)
       IN IF Len(s) \in keep THEN Append(rest, s[Len(s)]) ELSE rest

Filter(s, Test(_)) == SelectIdx(s, { i \in 1..Len(s) : Test(s[i]) })

Count(s, v) == Cardinality({ i \in 1..Len(s) : s[i] = v })

Min(a, b) == IF a < b THEN a ELSE b
Max(a, b) == IF a > b THEN a ELSE b

\* ------------------------------------------------- preference memory
\* `${role || ""}|${plantation || ""}|${building || ""}`
moveKey(role, plantation, building) == role \o "|" \o plantation \o "|" \o building

CountOf(feedback, key) == IF key \in DOMAIN feedback THEN feedback[key] ELSE 0

\* mutant: an affirmation counts twice
RecordFeedbackTwice(feedback, role, plantation, building) ==
  LET key == moveKey(role, plantation, building)
  IN [ k \in DOMAIN feedback \cup {key} |->
         IF k = key THEN CountOf(feedback, key) + 2 ELSE feedback[k] ]

recordFeedback(feedback, role, plantation, building) ==
  LET key == moveKey(role, plantation, building)
  IN [ k \in DOMAIN feedback \cup {key} |->
         IF k = key THEN CountOf(feedback, key) + 1 ELSE feedback[k] ]

\* mutant: the bonus stops growing after the first affirmation
FeedbackBonusCapped(feedback, role, plantation, building) ==
  3 * Min(1, CountOf(feedback, moveKey(role, plantation, building)))

feedbackBonus(feedback, role, plantation, building) ==
  3 * CountOf(feedback, moveKey(role, plantation, building))

\* ------------------------------------------------------------- scoring
\* [playerBoard.startingPlantation, ...playerBoard.extraPlantations]
AllPlantations(playerBoard) ==
  << playerBoard.startingPlantation >> \o playerBoard.extraPlantations

\* mutant: the diversification bonus looks at the starting tile only
SynergyIgnoresExtras(plantation, playerBoard) ==
  IF plantation = playerBoard.startingPlantation
    THEN (IF plantation = "Corn" THEN 9
          ELSE IF plantation = "Indigo" THEN 2
          ELSE 6)
    ELSE 5

plantationSynergyBonus(plantation, playerBoard) ==
  (IF plantation = playerBoard.startingPlantation
     THEN (IF plantation = "Corn" THEN 9
           ELSE IF plantation = "Indigo" THEN 2
           ELSE 6)
     ELSE 0)
  + (IF plantation \notin Range(AllPlantations(playerBoard)) THEN 5 ELSE 0)

\* mutant: no bonus for taking the opponent's starting tile
NoDenyBonus(plantation, opponentBoard) == 0

plantationDenyBonus(plantation, opponentBoard) ==
  IF plantation = opponentBoard.startingPlantation THEN 4 ELSE 0

\* mutant: the penalty for further quarries does not scale with their number
QuarryPenaltyFlat(you, context) ==
  LET q == you.quarries
  IN 27 + (IF context.turnNumber <= 3 THEN 5 ELSE 0)
        + (IF q = 0 THEN 8
           ELSE IF q = 1 THEN 3
           ELSE 0 - 3)

scoreQuarryChoice(you, context) ==
  LET q == you.quarries
  IN 27 + (IF context.turnNumber <= 3 THEN 5 ELSE 0)
        + (IF q = 0 THEN 8
           ELSE IF q = 1 THEN 3
           ELSE 0 - 3 * (q - 1))

scorePlantationChoice(plantation, you, opponent, context) ==
  IF plantation = Quarry
    THEN scoreQuarryChoice(you, context)
    ELSE PLANTATION_VALUES_BASE(plantation)
         + plantationSynergyBonus(plantation, you)
         + plantationDenyBonus(plantation, opponent)
         + (IF context.turnNumber <= 2 THEN 4 ELSE 0)

MatchesClause == "It matches your starting plantation, reinforcing that production line."

DiversifiesClause == "It diversifies your plantations, giving you more flexibility later."

DeniesClause == "It also denies the opponent another copy of their main crop."

\* the sentence describePlantationReason opens with
LeadSentences(plantation, you) ==
  IF plantation = Quarry
    THEN << "Quarries reduce building costs, which is extremely valuable in 2-player where building tempo is critical.",
            IF you.quarries = 0
              THEN "This is your first quarry, giving you a big long-term discount on buildings."
              ELSE "More quarries further reduce your effective building costs, though with diminishing returns." >>
  ELSE IF plantation = "Corn"
    THEN << "Corn is extremely strong early because it produces without a building and gives fast shipping pressure in 2-player." >>
  ELSE IF plantation = "Indigo"
    THEN << "Indigo is weaker economically than corn; it mainly shines once you have the matching indigo production building." >>
  ELSE IF plantation = "Sugar"
    THEN << "Sugar is a higher-value good that scores well once the Sugar Mill is in place, making it an appealing early pick." >>
  ELSE << plantation \o " is a high-value export that pays off once the right production building is online." >>

\* mutant: the explanation never mentions the denial
DescribeWithoutDenial(plantation, you, opponent) ==
  LeadSentences(plantation, you)
  \o (IF plantation # Quarry
        THEN (IF plantation = you.startingPlantation
                THEN << MatchesClause >>
                ELSE << DiversifiesClause >>)
        ELSE << >>)

\* the list `parts`; the code returns parts.join(" "), in which a sentence
\* occurs exactly when it is in the list
describePlantationReason(plantation, you, opponent) ==
  LeadSentences(plantation, you)
  \o (IF plantation # Quarry
        THEN (IF plantation = you.startingPlantation
                THEN << MatchesClause >>
                ELSE << DiversifiesClause >>)
             \o (IF plantation = opponent.startingPlantation
                   THEN << DeniesClause >>
                   ELSE << >>)
        ELSE << >>)

\* mutant: no building counts as owned
HasBuildingNever(buildings, name) == FALSE

hasBuilding(buildings, name) == name \in Range(buildings)

countPlantationType(playerBoard, type) == Count(AllPlantations(playerBoard), type)

NeverRecommend == 0 - 9990    \* return -999

scoreBuildingChoice(building, you, context) ==
  IF hasBuilding(you.buildings, building.name)
    THEN NeverRecommend
    ELSE building.baseValue
         + (IF building.type = "production" /\ building.crop # NoValue
              THEN LET n == countPlantationType(you, building.crop)
                   IN IF n > 0 THEN 15 + 3 * (n - 1)
                      ELSE IF building.crop = you.startingPlantation THEN 10
                      ELSE 0
              ELSE 0)
         + (IF building.name = "Small Market"
               /\ Cardinality(Range(AllPlantations(you))) >= 2 THEN 7 ELSE 0)
         + (IF building.name = "Hacienda" /\ context.turnNumber <= 3 THEN 8 ELSE 0)
         + you.quarries * 3
         - building.cost * 2

RECURSIVE SortUnstable(_)
\* mutant: an element goes before the placed elements of the same score
SortUnstable(s) ==
  IF s = << >> THEN << >>
  ELSE LET head == SortUnstable(SubSeq(s, 1, Len(s) - 1))
           x == s[Len(s)]
           k == Cardinality({ i \in 1..Len(head) : head[i].score > x.score })
       IN SubSeq(head, 1, k) \o << x >> \o SubSeq(head, k + 1, Len(head))

RECURSIVE SortByScoreDesc(_)
\* Array.prototype.sort((a, b) => b.score - a.score): descending by score,
\* stable (an element goes after the elements already placed that score at
\* least as much).
SortByScoreDesc(s) ==
  IF s = << >> THEN << >>
  ELSE LET head == SortByScoreDesc(SubSeq(s, 1, Len(s) - 1))
           x == s[Len(s)]
           k == Cardinality({ i \in 1..Len(head) : head[i].score >= x.score })
       IN SubSeq(head, 1, k) \o << x >> \o SubSeq(head, k + 1, Len(head))

\* mutant: the affordability filter dropped
AffordableAlways(building, you) == TRUE

Affordable(building, you) == building.cost <= you.doubloons

getBuilderOptions(you, context) ==
  LET affordable == Filter(BUILDINGS, LAMBDA b : Affordable(b, you))
      scored == [ i \in 1..Len(affordable) |->
                    [ building |-> affordable[i],
                      score |-> scoreBuildingChoice(affordable[i], you, context) ] ]
      kept == Filter(scored, LAMBDA opt : opt.score > 0 - 5000)
  IN SortByScoreDesc(kept)

scoreProspector(you, context) ==
  20 + (IF you.doubloons <= 2 THEN 7 ELSE 0)
     - (IF context.turnNumber <= 2 THEN 2 ELSE 0)

scoreOtherRole(role, you, context) ==
  LET plantCount == Len(AllPlantations(you))
      hasAnyBuilding == Len(you.buildings) > 0
  IN CASE role = "Mayor" -> (IF hasAnyBuilding \/ plantCount > 1 THEN 12 ELSE 6)
       [] role = "Craftsman" -> (IF hasAnyBuilding THEN 10 ELSE 4)
       [] role = "Trader" -> 7
       [] role = "Captain" -> (IF plantCount >= 2 THEN 6 ELSE 2)
       [] OTHER -> 3

\* ------------------------------------------------------ recommendMoves
Candidate(score, role, plantation, building) ==
  [ score |-> score, role |-> role, plantation |-> plantation, building |-> building ]

\* mutant: one push per tile type on the row, as the Settler selectors list them
SettlerCandidatesPerType(state, feedback) ==
  LET row == state.roundState.faceUpPlantations
      context == [ turnNumber |-> state.turnNumber ]
      first == SelectIdx(row, { i \in 1..Len(row) :
                                  row[i] # None /\ \A j \in 1..(i - 1) : row[j] # row[i] })
  IN IF "Settler" \in Range(state.roundState.availableRoles)
       THEN [ i \in 1..Len(first) |->
                [ score |-> scorePlantationChoice(first[i], state.you, state.opponent, context)
                              + feedbackBonus(feedback, "Settler", first[i], NoValue),
                  role |-> "Settler", plantation |-> first[i], building |-> NoValue ] ]
            \o (IF state.roundState.quarriesRemaining > 0
                  THEN << [ score |-> scorePlantationChoice(Quarry, state.you, state.opponent, context)
                                        + feedbackBonus(feedback, "Settler", Quarry, NoValue),
                            role |-> "Settler", plantation |-> Quarry, building |-> NoValue ] >>
                  ELSE << >>)
       ELSE << >>

\* the Settler block: one push per face-up slot that is not "None", then the
\* Quarry while the supply lasts
SettlerCandidates(state, feedback) ==
  LET row == state.roundState.faceUpPlantations
      context == [ turnNumber |-> state.turnNumber ]
      taken == Filter(row, LAMBDA plantation : plantation # None)
      tiles == [ i \in 1..Len(taken) |->
                   Candidate(scorePlantationChoice(taken[i], state.you, state.opponent, context)
                               + feedbackBonus(feedback, "Settler", taken[i], NoValue),
                             "Settler", taken[i], NoValue) ]
      quarry == IF state.roundState.quarriesRemaining > 0
                  THEN << Candidate(scorePlantationChoice(Quarry, state.you, state.opponent, context)
                                      + feedbackBonus(feedback, "Settler", Quarry, NoValue),
                                    "Settler", Quarry, NoValue) >>
                  ELSE << >>
  IN IF "Settler" \in Range(state.roundState.availableRoles) THEN tiles \o quarry ELSE << >>

ProspectorCandidates(state, feedback) ==
  LET context == [ turnNumber |-> state.turnNumber ]
  IN IF "Prospector" \in Range(state.roundState.availableRoles)
       THEN << Candidate(scoreProspector(state.you, context)
                           + feedbackBonus(feedback, "Prospector", NoValue, NoValue),
                         "Prospector", NoValue, NoValue) >>
       ELSE << >>

BuilderCandidates(state, feedback) ==
  LET context == [ turnNumber |-> state.turnNumber ]
      builderOptions == getBuilderOptions(state.you, context)
  IN IF "Builder" \notin Range(state.roundState.availableRoles) THEN << >>
     ELSE IF Len(builderOptions) = 0
       THEN << Candidate(4 + feedbackBonus(feedback, "Builder", NoValue, NoValue),
                         "Builder", NoValue, NoValue) >>
       ELSE [ i \in 1..Len(builderOptions) |->
                Candidate(builderOptions[i].score
                            + feedbackBonus(feedback, "Builder", NoValue, builderOptions[i].building.name),
                          "Builder", NoValue, builderOptions[i].building.name) ]

OtherRoleCandidates(state, feedback) ==
  LET context == [ turnNumber |-> state.turnNumber ]
      others == Filter(state.roundState.availableRoles,
                       LAMBDA role : role \notin {"Settler", "Prospector", "Builder"})
  IN [ i \in 1..Len(others) |->
         Candidate(scoreOtherRole(others[i], state.you, context)
                     + feedbackBonus(feedback, others[i], NoValue, NoValue),
                   others[i], NoValue, NoValue) ]

\* the recommendations array before the final sort
Enumerated(state, feedback) ==
  SettlerCandidates(state, feedback) \o ProspectorCandidates(state, feedback)
    \o BuilderCandidates(state, feedback) \o OtherRoleCandidates(state, feedback)

recommendMoves(state, feedback) == SortByScoreDesc(Enumerated(state, feedback))

\* ---------------------------------------------------------------- state
VARIABLES
  sessionState,         \* the session object of the script
  governor,             \* #governor-select: "you" or "opponent"
  yourDoubloons,        \* #your-doubloons
  oppDoubloons,         \* #opp-doubloons
  faceUpPlantations,    \* the .plantation selects, in document order
  quarriesRemaining,    \* #quarries-remaining
  checkedRoles,         \* the .role checkboxes that are checked
  turnNumber,           \* #turn-number, the pick selector
  recommendations,      \* what the last recommendMoves returned while it is shown
  applied,              \* history: moves applied and resets made since the page loaded
  emptied,              \* history: face-up slots turned to "None" since the last reset
  scoring,              \* a scoring function's arguments and result, where one is applied alone
  turnDisplay           \* #round-turn-display: round, turn shown and whose pick it is

vars == << sessionState, governor, yourDoubloons, oppDoubloons, faceUpPlantations,
           quarriesRemaining, checkedRoles, turnNumber, recommendations, applied, emptied,
           scoring, turnDisplay >>

\* the rows of face-up tiles the page is opened with
InitialRows ==
  { << "Corn", "Sugar", "Corn" >>,
    << "Indigo", "None", "Coffee" >> }

\* the buildings the manual and opponent building selectors offer
BuildingOptions ==
  { "Small Indigo Plant", "Small Sugar Mill", "Indigo Plant" }

availableRoles == Filter(RoleOrder, LAMBDA role : role \in checkedRoles)

readStateFromUI ==
  [ you |-> [ startingPlantation |-> IF governor = "you" THEN "Indigo" ELSE "Corn",
              extraPlantations |-> sessionState.extraPlantations,
              quarries |-> sessionState.quarries,
              buildings |-> sessionState.buildings,
              doubloons |-> yourDoubloons ],
    opponent |-> [ startingPlantation |-> IF governor = "you" THEN "Corn" ELSE "Indigo",
                   extraPlantations |-> sessionState.opponent.extraPlantations,
                   quarries |-> sessionState.opponent.quarries,
                   buildings |-> sessionState.opponent.buildings,
                   doubloons |-> oppDoubloons ],
    roundState |-> [ availableRoles |-> availableRoles,
                     faceUpPlantations |-> faceUpPlantations,
                     quarriesRemaining |-> quarriesRemaining ],
    turnNumber |-> turnNumber ]

\* mutant: the Settler selectors offer the quarry whatever the supply
SettlerOptionsAlwaysQuarry(row, quarries) ==
  {NoValue} \cup (Range(row) \ {None, NoValue}) \cup {Quarry}

\* the options updateSettlerChoiceOptions leaves in the two Settler selectors
SettlerChoiceOptions(row, quarries) ==
  {NoValue} \cup (Range(row) \ {None, NoValue})
            \cup (IF quarries > 0 THEN {Quarry} ELSE {})

yourPicks(gov) == IF gov = "you" THEN << 1, 3, 5 >> ELSE << 2, 4, 6 >>

\* mutant: the advised player is taken to pick first whoever is governor
TurnDisplayGovernorBlind(gov, t, r) ==
  LET whose == IF t \in {1, 3, 5} THEN "your pick"
               ELSE IF t >= 1 /\ t <= 6 THEN "your opponent's pick"
               ELSE "round complete"
  IN IF t <= 6 THEN << r, t, whose >> ELSE << r, 6, "round complete" >>

\* updateTurnDisplay: the text shown, as (round, turn shown, whose pick)
updateTurnDisplay(gov, t, r) ==
  LET whose == IF t \in Range(yourPicks(gov)) THEN "your pick"
               ELSE IF t >= 1 /\ t <= 6 THEN "your opponent's pick"
               ELSE "round complete"
  IN IF t <= 6 THEN << r, t, whose >> ELSE << r, 6, "round complete" >>

\* populatePickNumbers: the selector is rebuilt and shows its first option
populatePickNumbers(gov) == yourPicks(gov)[1]

\* mutant: the pick selector is never advanced
AdvancePickNever(gov, current) == current

advancePickNumber(gov, current) ==
  LET picks == yourPicks(gov)
      at == { i \in 1..Len(picks) : picks[i] = current }
  IN IF at # {} /\ (CHOOSE i \in at : TRUE) < Len(picks)
       THEN picks[(CHOOSE i \in at : TRUE) + 1]
       ELSE current

\* mutant: every slot holding the tile is emptied
RemoveEveryMatch(row, plantation) ==
  [ i \in 1..Len(row) |-> IF row[i] = plantation THEN None ELSE row[i] ]

\* mutant: the row is left as it was
RemoveNothing(row, plantation) == row

removePlantationFromRow(row, plantation) ==
  IF plantation = NoValue \/ plantation = Quarry THEN row
  ELSE LET holding == { i \in 1..Len(row) : row[i] = plantation }
       IN IF holding = {} THEN row
          ELSE LET match == CHOOSE i \in holding : \A j \in holding : i <= j
               IN [ row EXCEPT ![match] = None ]

\* mutant: the supply is decremented without the q > 0 test
DecrementUnfloored(q) == q - 1

decrementQuarriesRemaining(q) == IF q > 0 THEN q - 1 ELSE q

\* sessionState.buildings.push(buildingName) unless it is already included
AddBuilding(buildings, buildingName) ==
  IF buildingName \in Range(buildings) THEN buildings ELSE Append(buildings, buildingName)

\* mutant: a building the cost lookup prices at 0 is charged one doubloon
PayForCostless(money, buildingName) ==
  Max(0, money - Max(1, BUILDING_COSTS(buildingName)))

\* mutant: the deduction without Math.max(0, ...)
PayForUnclamped(money, buildingName) == money - BUILDING_COSTS(buildingName)

\* the money left after the cost lookup and the clamped deduction
PayFor(money, buildingName) ==
  LET cost == BUILDING_COSTS(buildingName)
  IN IF cost > 0 THEN Max(0, money - cost) ELSE money

\* mutant: every role but Settler and Builder pays a doubloon
ProspectorGainAnyRole(role, money) ==
  IF role \notin {"Settler", "Builder"} THEN money + 1 ELSE money

\* if (role === "Prospector") the money input is raised by one
ProspectorGain(role, money) == IF role = "Prospector" THEN money + 1 ELSE money

\* mutant: the counter advanced without Math.min(..., 7)
AdvanceTurnUncapped(t) == t + 1

AdvanceTurn(t) == Min(t + 1, RoundComplete)

\* mutant: the role's checkbox is left checked
UncheckNothing(checked, role) == checked

\* roleCheckbox.checked = false, for the checkbox of the role if there is one
UncheckRole(checked, role) == checked \ {role}

NewlyEmptied(row, newRow) ==
  Cardinality({ i \in 1..Len(row) : row[i] # None /\ newRow[i] = None })

InitialSession ==
  [ extraPlantations |-> << >>, quarries |-> 0, buildings |-> << >>,
    opponent |-> [ extraPlantations |-> << >>, quarries |-> 0, buildings |-> << >> ],
    feedbackCounts |-> << >>, turnInRound |-> 1, roundNumber |-> 1 ]

\* mutant: the reset leaves the opponent's board as it was
SyncKeepsOpponent(gov) ==
  /\ yourDoubloons' = (IF gov = "you" THEN 3 ELSE 2)
  /\ oppDoubloons' = (IF gov = "you" THEN 2 ELSE 3)
  /\ sessionState' = [ InitialSession EXCEPT !.opponent = sessionState.opponent ]
  /\ quarriesRemaining' = QuarrySupply
  /\ turnDisplay' = updateTurnDisplay(gov, sessionState'.turnInRound, sessionState'.roundNumber)
  /\ recommendations' = << >>

\* syncDoubloonsToGovernor for the governor value gov
syncDoubloonsToGovernor(gov) ==
  /\ yourDoubloons' = (IF gov = "you" THEN 3 ELSE 2)
  /\ oppDoubloons' = (IF gov = "you" THEN 2 ELSE 3)
  /\ sessionState' = InitialSession
  /\ quarriesRemaining' = QuarrySupply
  /\ turnDisplay' = updateTurnDisplay(gov, sessionState'.turnInRound, sessionState'.roundNumber)
  /\ recommendations' = << >>

Init ==
  /\ governor \in {"you", "opponent"}
  /\ faceUpPlantations \in InitialRows
  /\ checkedRoles = Roles
  /\ yourDoubloons = (IF governor = "you" THEN 3 ELSE 2)
  /\ oppDoubloons = (IF governor = "you" THEN 2 ELSE 3)
  /\ sessionState = InitialSession
  /\ quarriesRemaining = QuarrySupply
  /\ turnNumber = populatePickNumbers(governor)
  /\ recommendations = << >>
  /\ applied = 0
  /\ emptied = 0
  /\ scoring = << >>
  /\ turnDisplay = updateTurnDisplay(governor, sessionState.turnInRound, sessionState.roundNumber)

\* -------------------------------------------------------------- actions
\* mutant: the selected value is not looked at
HasChoiceAlways(value) == TRUE

\* `&& plantation`, `&& buildingName`, `else if (gain)`: a value was selected
HasChoice(value) == value # NoValue

\* applyChosenMove(role, plantation, buildingName), run on the session value
\* `session` (the manual handler has recorded its affirmation in it first)
applyChosenMove(session, role, plantation, buildingName) ==
  LET isQuarry == role = "Settler" /\ HasChoice(plantation) /\ plantation = Quarry
      isTile == role = "Settler" /\ HasChoice(plantation) /\ plantation # Quarry
      isBuilder == role = "Builder" /\ HasChoice(buildingName)
      newRow == IF isTile THEN removePlantationFromRow(faceUpPlantations, plantation)
                ELSE faceUpPlantations
      paid == IF isBuilder THEN PayFor(yourDoubloons, buildingName) ELSE yourDoubloons
  IN /\ sessionState' =
          [ session EXCEPT
              !.quarries = IF isQuarry THEN @ + 1 ELSE @,
              !.extraPlantations = IF isTile THEN Append(@, plantation) ELSE @,
              !.buildings = IF isBuilder THEN AddBuilding(@, buildingName) ELSE @,
              !.turnInRound = AdvanceTurn(@) ]
     /\ quarriesRemaining' =
          (IF isQuarry THEN decrementQuarriesRemaining(quarriesRemaining) ELSE quarriesRemaining)
     /\ faceUpPlantations' = newRow
     /\ yourDoubloons' = ProspectorGain(role, paid)
     /\ checkedRoles' = UncheckRole(checkedRoles, role)
     /\ turnNumber' = advancePickNumber(governor, turnNumber)
     /\ recommendations' = << >>
     /\ applied' = applied + 1
     /\ emptied' = emptied + NewlyEmptied(faceUpPlantations, newRow)
     /\ turnDisplay' = updateTurnDisplay(governor, sessionState'.turnInRound,
                                         sessionState'.roundNumber)
     /\ UNCHANGED << governor, oppDoubloons, scoring >>

\* the Recommend button
ClickRecommend ==
  /\ recommendations' = recommendMoves(readStateFromUI, sessionState.feedbackCounts)
  /\ UNCHANGED << sessionState, governor, yourDoubloons, oppDoubloons, faceUpPlantations,
                  quarriesRemaining, checkedRoles, turnNumber, applied, emptied, scoring,
                  turnDisplay >>

\* a click on one of the recommendations shown (the first ShownCount of them)
ClickShown(cap) ==
  \E i \in 1..Min(ShownCount, Len(recommendations)) :
    /\ applied < cap
    /\ applyChosenMove(sessionState, recommendations[i].role,
                       recommendations[i].plantation, recommendations[i].building)

TotalFeedback(feedback) ==
  LET RECURSIVE Sum(_)
      Sum(keys) == IF keys = {} THEN 0
                   ELSE LET k == CHOOSE k \in keys : TRUE
                        IN feedback[k] + Sum(keys \ {k})
  IN Sum(DOMAIN feedback)

\* the manual panel's Apply button
ManualApply(role, plantation, buildingName) ==
  /\ role # NoValue
  /\ TotalFeedback(sessionState.feedbackCounts) < MaxFeedback
  /\ applyChosenMove(
       [ sessionState EXCEPT
           !.feedbackCounts = recordFeedback(@, role, plantation, buildingName) ],
       role, plantation, buildingName)

\* mutant: the opponent panel applies the move to the advised player's side
OpponentMoveAsYours(role, gain, buildingName) ==
  IF role = NoValue THEN UNCHANGED vars
  ELSE applyChosenMove(sessionState, role, gain, buildingName)

\* the opponent panel's Apply button: applyOpponentLastRole
applyOpponentLastRole(role, gain, buildingName) ==
  IF role = NoValue THEN UNCHANGED vars
  ELSE
    LET isQuarry == role = "Settler" /\ gain = Quarry
        isTile == role = "Settler" /\ gain # Quarry /\ HasChoice(gain)
        isBuilder == role = "Builder" /\ HasChoice(buildingName)
        newRow == IF isTile THEN removePlantationFromRow(faceUpPlantations, gain)
                  ELSE faceUpPlantations
        paid == IF isBuilder THEN PayFor(oppDoubloons, buildingName) ELSE oppDoubloons
    IN /\ sessionState' =
            [ sessionState EXCEPT
                !.opponent.quarries = IF isQuarry THEN @ + 1 ELSE @,
                !.opponent.extraPlantations = IF isTile THEN Append(@, gain) ELSE @,
                !.opponent.buildings = IF isBuilder THEN AddBuilding(@, buildingName) ELSE @,
                !.turnInRound = AdvanceTurn(@) ]
       /\ quarriesRemaining' =
            (IF isQuarry THEN decrementQuarriesRemaining(quarriesRemaining) ELSE quarriesRemaining)
       /\ faceUpPlantations' = newRow
       /\ oppDoubloons' = ProspectorGain(role, paid)
       /\ checkedRoles' = UncheckRole(checkedRoles, role)
       /\ recommendations' = << >>
       /\ applied' = applied + 1
       /\ emptied' = emptied + NewlyEmptied(faceUpPlantations, newRow)
       /\ turnDisplay' = updateTurnDisplay(governor, sessionState'.turnInRound,
                                           sessionState'.roundNumber)
       /\ UNCHANGED << governor, yourDoubloons, turnNumber, scoring >>

\* mutant: the reset also checks every role again and refills the row
ChangeGovernorRestoresRound(cap) ==
  /\ applied < cap
  /\ governor' = (IF governor = "you" THEN "opponent" ELSE "you")
  /\ syncDoubloonsToGovernor(governor')
  /\ turnNumber' = populatePickNumbers(governor')
  /\ emptied' = 0
  /\ applied' = applied + 1
  /\ checkedRoles' = Roles
  /\ faceUpPlantations' = << "Corn", "Sugar", "Corn" >>
  /\ UNCHANGED scoring

\* the governor selector's change handler: reset, then the pick selector
ChangeGovernor(cap) ==
  /\ applied < cap
  /\ governor' = (IF governor = "you" THEN "opponent" ELSE "you")
  /\ syncDoubloonsToGovernor(governor')
  /\ turnNumber' = populatePickNumbers(governor')
  /\ emptied' = 0
  /\ applied' = applied + 1
  /\ UNCHANGED << faceUpPlantations, checkedRoles, scoring >>

\* what the user can have selected in a panel when its Apply button is
\* pressed: a tile or a building is selected only with the role that reads it
RoleOnlyChoices == { << role, NoValue, NoValue >> : role \in Roles }

PanelChoices ==
  RoleOnlyChoices
    \cup { << "Settler", p, NoValue >> :
             p \in SettlerChoiceOptions(faceUpPlantations, quarriesRemaining) }
    \cup { << "Builder", NoValue, b >> : b \in BuildingOptions }

ManualApplyFrom(choices, cap) ==
  \E c \in choices : applied < cap /\ ManualApply(c[1], c[2], c[3])

ApplyOpponentFrom(choices, cap) ==
  \E c \in choices \cup { << NoValue, NoValue, NoValue >> } :
    (c[1] # NoValue => applied < cap) /\ applyOpponentLastRole(c[1], c[2], c[3])

\* ---------------------------------------------- the session, any choice
ClickRecommendation == ClickShown(MaxApplied)
ManualApplyClick == ManualApplyFrom(PanelChoices, MaxApplied)
ApplyOpponentClick == ApplyOpponentFrom(PanelChoices, MaxApplied)
GovernorChange == ChangeGovernor(MaxApplied)

Next ==
  \/ ClickRecommend
  \/ ClickRecommendation
  \/ ManualApplyClick
  \/ ApplyOpponentClick
  \/ GovernorChange

Spec == Init /\ [][Next]_vars

\* ------------------------------- a whole round, role-only panel choices
RoundChoices ==
  { << role, NoValue, NoValue >> : role \in {"Prospector", "Mayor"} }

RoundClickRecommendation == ClickShown(MaxRound)
RoundManualApply == ManualApplyFrom(RoundChoices, MaxRound)
RoundApplyOpponent == ApplyOpponentFrom(RoundChoices, MaxRound)
RoundGovernorChange == ChangeGovernor(MaxRound)

NextRound ==
  \/ ClickRecommend
  \/ RoundClickRecommendation
  \/ RoundManualApply
  \/ RoundApplyOpponent
  \/ RoundGovernorChange

SpecRound == Init /\ [][NextRound]_vars

\* ------------------- the advisor alone, over boards the inputs can show
\* The tiles, the role checkboxes, the money and the quarry supply are inputs
\* the user sets for every round; the session boards are what earlier rounds
\* left.  The advisor is applied to each combination drawn here.
AdvisorRows ==
  { << "Corn", "Sugar", "Corn" >>,
    << "Sugar", "Coffee", "None" >>,
    << "Indigo", "Tobacco", "Corn" >>,
    << "None", "None", "None" >> }

AdvisorRoles ==
  { Roles, Roles \ {"Settler"}, Roles \ {"Builder", "Prospector"}, {"Captain", "Mayor"}, {} }

AdvisorExtras == { << >>, << "Sugar" >>, << "Corn", "Indigo", "Corn" >> }

AdvisorBuildings ==
  { << >>, << "Small Market" >>,
    << "Hacienda", "Small Indigo Plant", "Small Sugar Mill", "Small Market" >> }

AdvisorFeedback ==
  { << >>,
    (moveKey("Settler", "Sugar", NoValue) :> 1) @@ (moveKey("Captain", NoValue, NoValue) :> 2)
      @@ (moveKey("Builder", NoValue, "Hacienda") :> 1) }

InitAdvisor ==
  /\ governor \in {"you", "opponent"}
  /\ faceUpPlantations \in AdvisorRows
  /\ checkedRoles \in AdvisorRoles
  /\ yourDoubloons \in {0, 1, 3}
  /\ oppDoubloons = (IF governor = "you" THEN 2 ELSE 3)
  /\ \E extras \in AdvisorExtras, q \in {0, 2}, owned \in AdvisorBuildings,
        feedback \in AdvisorFeedback :
       sessionState = [ InitialSession EXCEPT !.extraPlantations = extras,
                                               !.quarries = q,
                                               !.buildings = owned,
                                               !.feedbackCounts = feedback ]
  /\ quarriesRemaining \in {0, QuarrySupply}
  /\ turnNumber \in Range(yourPicks(governor))
  /\ recommendations = << >>
  /\ applied = 0
  /\ emptied = 0
  /\ scoring = << >>
  /\ turnDisplay = updateTurnDisplay(governor, sessionState.turnInRound, sessionState.roundNumber)

SpecAdvisor == InitAdvisor /\ [][ClickRecommend]_vars

\* ------------------ the quarry supply, with the supply input corrected
\* the user types the supply left into #quarries-remaining while a list of
\* recommendations is shown (the change handler rebuilds the Settler selectors,
\* the list stays as it is)
EditQuarriesRemaining ==
  /\ recommendations # << >>
  /\ quarriesRemaining' \in (0..QuarrySupply) \ {quarriesRemaining}
  /\ UNCHANGED << sessionState, governor, yourDoubloons, oppDoubloons, faceUpPlantations,
                  checkedRoles, turnNumber, recommendations, applied, emptied, scoring,
                  turnDisplay >>

SupplyChoices ==
  { << "Settler", p, NoValue >> :
      p \in SettlerChoiceOptions(faceUpPlantations, quarriesRemaining) }

SupplyClickRecommendation == ClickShown(MaxApplied)
SupplyManualApply == ManualApplyFrom(SupplyChoices, MaxApplied)
SupplyApplyOpponent == ApplyOpponentFrom(SupplyChoices, MaxApplied)

NextSupply ==
  \/ ClickRecommend
  \/ SupplyClickRecommendation
  \/ SupplyManualApply
  \/ SupplyApplyOpponent
  \/ EditQuarriesRemaining

SpecSupply == Init /\ [][NextSupply]_vars

\* ------------- purchases, with names the cost map does not list
\* the building selectors also offer "Other" (listed at cost 0) and a name the
\* cost map lacks
NotInCostCatalog == { "Chapel" }

PurchaseOptions == { "Small Indigo Plant", "Other" } \cup NotInCostCatalog

PurchaseChoices ==
  { << "Builder", NoValue, b >> : b \in PurchaseOptions }
    \cup { << "Prospector", NoValue, NoValue >> }

PurchaseClickRecommendation == ClickShown(MaxApplied)
PurchaseManualApply == ManualApplyFrom(PurchaseChoices, MaxApplied)
PurchaseApplyOpponent == ApplyOpponentFrom(PurchaseChoices, MaxApplied)
PurchaseGovernorChange == ChangeGovernor(MaxApplied)

NextPurchase ==
  \/ ClickRecommend
  \/ PurchaseClickRecommendation
  \/ PurchaseManualApply
  \/ PurchaseApplyOpponent
  \/ PurchaseGovernorChange

SpecPurchase == Init /\ [][NextPurchase]_vars

\* ------ the roles without a tile or building, stray selections included
\* the panels read their tile and building selectors only for Settler and
\* Builder; another role may be applied with either selector still set
SecondaryRoles == { "Prospector", "Mayor", "Craftsman", "Trader", "Captain" }

SecondaryChoices ==
  { << role, NoValue, NoValue >> : role \in SecondaryRoles }
    \cup { << role, "Corn", "Small Indigo Plant" >> : role \in {"Prospector", "Captain"} }

SecondaryClickRecommendation == ClickShown(MaxApplied)
SecondaryManualApply == ManualApplyFrom(SecondaryChoices, MaxApplied)
SecondaryApplyOpponent == ApplyOpponentFrom(SecondaryChoices, MaxApplied)
SecondaryGovernorChange == ChangeGovernor(MaxApplied)

NextSecondary ==
  \/ ClickRecommend
  \/ SecondaryClickRecommendation
  \/ SecondaryManualApply
  \/ SecondaryApplyOpponent
  \/ SecondaryGovernorChange

SpecSecondary == Init /\ [][NextSecondary]_vars

\* ------------- quarries claimed by either player until the supply is gone
\* the Settler selectors as updateSettlerChoiceOptions left them, no input
\* edited by hand
QuarryChoices ==
  { << "Settler", p, NoValue >> :
      p \in SettlerChoiceOptions(faceUpPlantations, quarriesRemaining) \cap {Quarry, NoValue, "Corn"} }

QuarryClickRecommendation == ClickShown(MaxRound)
QuarryManualApply == ManualApplyFrom(QuarryChoices, MaxRound)
QuarryApplyOpponent == ApplyOpponentFrom(QuarryChoices, MaxRound)
QuarryGovernorChange == ChangeGovernor(MaxRound)

NextQuarry ==
  \/ ClickRecommend
  \/ QuarryClickRecommendation
  \/ QuarryManualApply
  \/ QuarryApplyOpponent
  \/ QuarryGovernorChange

SpecQuarry == Init /\ [][NextQuarry]_vars

\* ------- both players' moves of every kind: a tile, a quarry, a building,
\* ------- the Prospector
IsolationChoices ==
  { << "Settler", p, NoValue >> :
      p \in SettlerChoiceOptions(faceUpPlantations, quarriesRemaining) \cap {Quarry, "Corn"} }
    \cup { << "Builder", NoValue, "Small Indigo Plant" >>,
           << "Prospector", NoValue, NoValue >> }

IsolationClickRecommendation == ClickShown(MaxApplied)
IsolationManualApply == ManualApplyFrom(IsolationChoices, MaxApplied)
IsolationApplyOpponent == ApplyOpponentFrom(IsolationChoices, MaxApplied)
IsolationGovernorChange == ChangeGovernor(MaxApplied)

NextIsolation ==
  \/ ClickRecommend
  \/ IsolationClickRecommendation
  \/ IsolationManualApply
  \/ IsolationApplyOpponent
  \/ IsolationGovernorChange

SpecIsolation == Init /\ [][NextIsolation]_vars

\* -------- a round played in turn: the players apply their moves as the turn
\* -------- display calls them, the governor first
AlternateChoices ==
  { << role, NoValue, NoValue >> : role \in {"Prospector", "Mayor", "Captain"} }
    \cup { << "Settler", p, NoValue >> :
             p \in SettlerChoiceOptions(faceUpPlantations, quarriesRemaining) \cap {Quarry} }

AlternateClickRecommendation ==
  turnDisplay[3] = "your pick" /\ ClickShown(MaxRound)

AlternateManualApply ==
  turnDisplay[3] = "your pick" /\ ManualApplyFrom(AlternateChoices, MaxRound)

AlternateApplyOpponent ==
  turnDisplay[3] = "your opponent's pick" /\ ApplyOpponentFrom(AlternateChoices, MaxRound)

AlternateGovernorChange == ChangeGovernor(MaxRound)

NextAlternate ==
  \/ ClickRecommend
  \/ AlternateClickRecommendation
  \/ AlternateManualApply
  \/ AlternateApplyOpponent
  \/ AlternateGovernorChange

SpecAlternate == Init /\ [][NextAlternate]_vars

\* ---- the advised player's purchases over several rounds, the inputs set
\* ---- by the user
\* For a new round the user ticks the role checkboxes again and corrects the
\* money input; neither input has a change handler, so a shown list stays as it is.
TickRoles ==
  /\ checkedRoles # Roles
  /\ checkedRoles' = Roles
  /\ UNCHANGED << sessionState, governor, yourDoubloons, oppDoubloons, faceUpPlantations,
                  quarriesRemaining, turnNumber, recommendations, applied, emptied, scoring,
                  turnDisplay >>

EditYourDoubloons ==
  /\ yourDoubloons' \in {0, 1, 3} \ {yourDoubloons}
  /\ UNCHANGED << sessionState, governor, oppDoubloons, faceUpPlantations, quarriesRemaining,
                  checkedRoles, turnNumber, recommendations, applied, emptied, scoring,
                  turnDisplay >>

OwnedChoices ==
  { << "Builder", NoValue, b >> : b \in { "Small Indigo Plant", "Small Market" } }

OwnedClickRecommendation == ClickShown(MaxApplied)
OwnedManualApply == ManualApplyFrom(OwnedChoices, MaxApplied)
OwnedGovernorChange == ChangeGovernor(MaxApplied)

NextOwned ==
  \/ ClickRecommend
  \/ OwnedClickRecommendation
  \/ OwnedManualApply
  \/ OwnedGovernorChange
  \/ TickRoles
  \/ EditYourDoubloons

SpecOwned == Init /\ [][NextOwned]_vars

\* --------------- the scoring functions alone, over boards drawn freely
\* scorePlantationChoice, scoreQuarryChoice and recommendMoves are pure: each
\* is applied here to arguments drawn from bounded sets (any starting tile for
\* either player, a tile PLANTATION_VALUES_BASE does not list among them).
ScoredTiles == PlantationTypes \cup { "Wheat" }

ScoredExtras == { << >>, << "Sugar" >>, << "Corn", "Tobacco" >> }

PickNumbers == Range(yourPicks("you")) \cup Range(yourPicks("opponent"))

ScoringArguments ==
  { [ plantation |-> p,
      you |-> [ startingPlantation |-> youStart, extraPlantations |-> extras,
                quarries |-> q, buildings |-> << >>, doubloons |-> 3 ],
      opponent |-> [ startingPlantation |-> oppStart, extraPlantations |-> << >>,
                     quarries |-> 0, buildings |-> << >>, doubloons |-> 2 ],
      turnNumber |-> t,
      tileScore |-> << >>, quarryScore |-> << >>, advice |-> << >>,
      explained |-> << >> ] :
      p \in ScoredTiles, youStart \in PlantationTypes, extras \in ScoredExtras,
      q \in 0..MaxQuarries, oppStart \in PlantationTypes, t \in PickNumbers }

sessionVars ==
  << sessionState, governor, yourDoubloons, oppDoubloons, faceUpPlantations,
     quarriesRemaining, checkedRoles, turnNumber, recommendations, applied, emptied,
     turnDisplay >>

InitScore ==
  /\ governor = "you"
  /\ faceUpPlantations = << "Corn", "Sugar", "Corn" >>
  /\ checkedRoles = Roles
  /\ yourDoubloons = 3
  /\ oppDoubloons = 2
  /\ sessionState = InitialSession
  /\ quarriesRemaining = QuarrySupply
  /\ turnNumber = populatePickNumbers(governor)
  /\ recommendations = << >>
  /\ applied = 0
  /\ emptied = 0
  /\ scoring \in ScoringArguments
  /\ turnDisplay = updateTurnDisplay(governor, sessionState.turnInRound, sessionState.roundNumber)

NothingScored ==
  /\ scoring.tileScore = << >> /\ scoring.quarryScore = << >> /\ scoring.advice = << >>
  /\ scoring.explained = << >>

\* scorePlantationChoice(plantation, you, opponent, context)
ScoreTile ==
  /\ NothingScored
  /\ scoring' = [ scoring EXCEPT !.tileScore =
                    << scorePlantationChoice(scoring.plantation, scoring.you, scoring.opponent,
                                             [ turnNumber |-> scoring.turnNumber ]) >> ]
  /\ UNCHANGED sessionVars

\* scoreQuarryChoice(you, context)
ScoreQuarry ==
  /\ NothingScored
  /\ scoring' = [ scoring EXCEPT !.quarryScore =
                    << scoreQuarryChoice(scoring.you, [ turnNumber |-> scoring.turnNumber ]) >> ]
  /\ UNCHANGED sessionVars

\* the state recommendMoves is given: the drawn boards with the row
\* [plantation, the opponent's starting tile, "None"], every role available
ScoredState ==
  [ you |-> scoring.you,
    opponent |-> scoring.opponent,
    roundState |-> [ availableRoles |-> RoleOrder,
                     faceUpPlantations |->
                       << scoring.plantation, scoring.opponent.startingPlantation, None >>,
                     quarriesRemaining |-> QuarrySupply ],
    turnNumber |-> scoring.turnNumber ]

\* recommendMoves(state), with an empty preference memory
AdviseScored ==
  /\ NothingScored
  /\ scoring' = [ scoring EXCEPT !.advice = recommendMoves(ScoredState, << >>) ]
  /\ UNCHANGED sessionVars

\* the candidate recommendMoves builds for one face-up tile: its score (empty
\* preference memory) and its explanation, from the same arguments
ExplainTile ==
  /\ NothingScored
  /\ scoring' = [ scoring EXCEPT !.explained =
                    << [ score |-> scorePlantationChoice(scoring.plantation, scoring.you,
                                      scoring.opponent, [ turnNumber |-> scoring.turnNumber ]),
                         explanation |-> describePlantationReason(scoring.plantation,
                                           scoring.you, scoring.opponent) ] >> ]
  /\ UNCHANGED sessionVars

NextScore ==
  \/ ScoreTile
  \/ ScoreQuarry
  \/ AdviseScored
  \/ ExplainTile

SpecScore == InitScore /\ [][NextScore]_vars

\* ================================================================ claims
CountWhere(s, Test(_)) == Cardinality({ i \in 1..Len(s) : Test(s[i]) })

IsTileCandidate(c) == c.role = "Settler" /\ c.plantation # NoValue /\ c.plantation # Quarry
IsQuarryCandidate(c) == c.role = "Settler" /\ c.plantation = Quarry
IsPurchaseCandidate(c) == c.role = "Builder" /\ c.building # NoValue
IsLimitedBuilder(c) == c.role = "Builder" /\ c.building = NoValue

\* C1: recommendMoves returns no illegal candidate: every candidate's role is
\* available; a tile candidate names a tile some face-up slot holds and never
\* "None"; the Quarry is offered only while quarriesRemaining > 0; a building
\* candidate is neither owned by the advised player nor dearer than their money.
C1_NoIllegalCandidate ==
  \A i \in 1..Len(recommendations) :
    LET c == recommendations[i]
    IN /\ c.role \in checkedRoles
       /\ IsTileCandidate(c) =>
            c.plantation # None /\ c.plantation \in Range(faceUpPlantations)
       /\ IsQuarryCandidate(c) => quarriesRemaining > 0
       /\ c.plantation # NoValue => c.role = "Settler"
       /\ c.building # NoValue =>
            /\ c.role = "Builder"
            /\ c.building \notin Range(sessionState.buildings)
            /\ BUILDING_COSTS(c.building) <= yourDoubloons

\* a list with a purchase candidate, shown to a player who owns a building,
\* cannot afford every catalog building, and faces an emptied slot
C1_Witness ==
  /\ \E i \in 1..Len(recommendations) : IsPurchaseCandidate(recommendations[i])
  /\ sessionState.buildings # << >>
  /\ yourDoubloons = 1
  /\ None \in Range(faceUpPlantations)
  /\ \E i \in 1..Len(recommendations) : IsTileCandidate(recommendations[i])

EnumeratedNow == Enumerated(readStateFromUI, sessionState.feedbackCounts)

ClassRank(c) ==
  IF IsTileCandidate(c) THEN 1
  ELSE IF IsQuarryCandidate(c) THEN 2
  ELSE IF c.role = "Prospector" THEN 3
  ELSE IF c.role = "Builder" THEN 4
  ELSE 5

\* C2: the returned list is sorted by score, highest first, and candidates of
\* equal score keep the order of their enumeration: tiles in slot order, the
\* Quarry, Prospector, the Builder options, then the other roles in
\* availableRoles order.
C2_SortedStable ==
  recommendations # << >> =>
    LET recs == recommendations
        pushed == EnumeratedNow
        rank == [ i \in 1..Len(pushed) |-> ClassRank(pushed[i]) ]
        tiles == SelectIdx(pushed, { i \in 1..Len(pushed) : rank[i] = 1 })
        others == SelectIdx(pushed, { i \in 1..Len(pushed) : rank[i] = 5 })
    IN /\ \A i \in 1..(Len(recs) - 1) : recs[i].score >= recs[i + 1].score
       /\ \A s \in { recs[i].score : i \in 1..Len(recs) } :
            SelectIdx(recs, { i \in 1..Len(recs) : recs[i].score = s })
              = SelectIdx(pushed, { i \in 1..Len(pushed) : pushed[i].score = s })
       /\ \A i \in 1..(Len(pushed) - 1) : rank[i] <= rank[i + 1]
       /\ [ i \in 1..Len(tiles) |-> tiles[i].plantation ]
            = (IF "Settler" \in checkedRoles
                 THEN Filter(faceUpPlantations, LAMBDA p : p # None)
                 ELSE << >>)
       /\ [ i \in 1..Len(others) |-> others[i].role ]
            = Filter(availableRoles, LAMBDA r : r \notin {"Settler", "Prospector", "Builder"})

\* two different candidates of one score, next to each other in the list
C2_Witness ==
  \E i \in 1..(Len(recommendations) - 1) :
    /\ recommendations[i].score = recommendations[i + 1].score
    /\ recommendations[i] # recommendations[i + 1]

OfferedBuildings ==
  { BUILDINGS[i].name : i \in { k \in 1..Len(BUILDINGS) :
       /\ BUILDINGS[k].cost <= yourDoubloons
       /\ BUILDINGS[k].name \notin Range(sessionState.buildings) } }

\* C3: the list holds exactly one tile candidate per face-up slot that is not
\* "None" and one Quarry candidate while the supply lasts (both only with
\* Settler available); with Builder available either the single 'limited
\* options' candidate (nothing affordable and not owned) or one candidate per
\* affordable, not-owned catalog building; Prospector once iff available; one
\* candidate per other available role; and nothing else.
C3_ExactEnumeration ==
  recommendations # << >> =>
    LET settler == "Settler" \in checkedRoles
        builder == "Builder" \in checkedRoles
        N(Test(_)) == CountWhere(recommendations, Test)
    IN /\ \A p \in Range(faceUpPlantations) \ {None} :
            N(LAMBDA c : IsTileCandidate(c) /\ c.plantation = p)
              = (IF settler THEN Count(faceUpPlantations, p) ELSE 0)
       /\ N(IsTileCandidate)
            = (IF settler THEN Len(faceUpPlantations) - Count(faceUpPlantations, None) ELSE 0)
       /\ N(IsQuarryCandidate) = (IF settler /\ quarriesRemaining > 0 THEN 1 ELSE 0)
       /\ N(IsLimitedBuilder) = (IF builder /\ OfferedBuildings = {} THEN 1 ELSE 0)
       /\ \A b \in OfferedBuildings :
            N(LAMBDA c : IsPurchaseCandidate(c) /\ c.building = b) = (IF builder THEN 1 ELSE 0)
       /\ N(IsPurchaseCandidate) = (IF builder THEN Cardinality(OfferedBuildings) ELSE 0)
       /\ \A r \in Roles \ {"Settler", "Builder"} :
            N(LAMBDA c : c.role = r) = (IF r \in checkedRoles THEN 1 ELSE 0)
       /\ \A i \in 1..Len(recommendations) : recommendations[i].role \in Roles

\* a list with the 'limited options' Builder candidate and two candidates for
\* one tile held by two slots
C3_Witness ==
  /\ \E i \in 1..Len(recommendations) : IsLimitedBuilder(recommendations[i])
  /\ \E i, j \in 1..Len(recommendations) :
       i # j /\ IsTileCandidate(recommendations[i])
             /\ recommendations[i].plantation = recommendations[j].plantation
  /\ \E i \in 1..Len(recommendations) : IsQuarryCandidate(recommendations[i])

\* ---------------------------------------------- steps of the tracker
\* the advised player's move: the manual panel, or a click on a shown candidate
YouStep(role, plantation, buildingName) ==
  \/ ManualApply(role, plantation, buildingName)
  \/ /\ \E i \in 1..Min(ShownCount, Len(recommendations)) :
          /\ recommendations[i].role = role
          /\ recommendations[i].plantation = plantation
          /\ recommendations[i].building = buildingName
     /\ applyChosenMove(sessionState, role, plantation, buildingName)

\* the opponent's move, with a role selected
OppStep(role, gain, buildingName) ==
  role # NoValue /\ applyOpponentLastRole(role, gain, buildingName)

Tiles == { "Corn", "Indigo", "Sugar", "Tobacco", "Coffee" }

BuildingNames == BuildingOptions \cup { BUILDINGS[i].name : i \in 1..Len(BUILDINGS) }

TurnAfter(t) == IF t + 1 < 7 THEN t + 1 ELSE 7

\* C4: every applied move, the advised player's or the opponent's with a role
\* selected, sets turnInRound to min(turnInRound + 1, 7) and leaves roundNumber
\* alone; turnInRound stays within 1..7 and only a reset lowers it.  (A step
\* that applies a move is one that grows the history counter `applied` and
\* keeps the governor.)
C4_TurnAdvances ==
  /\ sessionState.turnInRound \in 1..7
  /\ [][ /\ sessionState'.turnInRound \in 1..7
         /\ (applied' = applied + 1 /\ governor' = governor) =>
              /\ sessionState'.turnInRound = TurnAfter(sessionState.turnInRound)
              /\ sessionState'.roundNumber = sessionState.roundNumber
         /\ sessionState'.turnInRound < sessionState.turnInRound => governor' # governor
       ]_vars

\* seven Prospector picks since the last reset: the seventh was applied with
\* the round already complete
C4_Witness ==
  /\ sessionState.turnInRound = 7
  /\ yourDoubloons + oppDoubloons = 12

ClaimedOnce(row, newRow, tile) ==
  \E k \in 1..Len(row) : row[k] = tile /\ newRow = [ row EXCEPT ![k] = None ]

\* C5: applying a claim of a face-up tile A, by either player, with
\* turnInRound < 7: that player's extra list holds A once more than before,
\* exactly one slot that held A is now "None" and every other slot is as it
\* was, and turnInRound has grown by exactly 1.
C5_ClaimResource ==
  [][ \A A \in Tiles :
        (A \in Range(faceUpPlantations) /\ sessionState.turnInRound < 7) =>
          /\ YouStep("Settler", A, NoValue) =>
               /\ Count(sessionState'.extraPlantations, A)
                    = Count(sessionState.extraPlantations, A) + 1
               /\ Len(sessionState'.extraPlantations) = Len(sessionState.extraPlantations) + 1
               /\ ClaimedOnce(faceUpPlantations, faceUpPlantations', A)
               /\ sessionState'.turnInRound = sessionState.turnInRound + 1
          /\ OppStep("Settler", A, NoValue) =>
               /\ Count(sessionState'.opponent.extraPlantations, A)
                    = Count(sessionState.opponent.extraPlantations, A) + 1
               /\ Len(sessionState'.opponent.extraPlantations)
                    = Len(sessionState.opponent.extraPlantations) + 1
               /\ ClaimedOnce(faceUpPlantations, faceUpPlantations', A)
               /\ sessionState'.turnInRound = sessionState.turnInRound + 1
    ]_vars

\* the opponent has claimed Corn from a row that held it twice: one Corn slot
\* is empty, the other still holds Corn
C5_Witness ==
  /\ sessionState.opponent.extraPlantations = << "Corn" >>
  /\ sessionState.extraPlantations = << >>
  /\ faceUpPlantations = << None, "Sugar", "Corn" >>
  /\ sessionState.turnInRound = 2

\* C6: in every state reached from a reset by applied moves, the extra tiles
\* the two players hold are as many as the face-up slots emptied since that
\* reset: no tile is gained without a slot being emptied, none is claimed twice.
C6_ClaimsMatchEmptiedSlots ==
  Len(sessionState.extraPlantations) + Len(sessionState.opponent.extraPlantations) = emptied

\* both players hold a claimed tile and two slots have been emptied
C6_Witness ==
  /\ sessionState.extraPlantations # << >>
  /\ sessionState.opponent.extraPlantations # << >>
  /\ emptied = 2
  /\ Count(faceUpPlantations, None) >= 2

\* C7: a Quarry claim adds one to the claiming player's quarries, takes one
\* from quarriesRemaining unless it is already 0, and leaves the face-up row
\* as it was; quarriesRemaining is never negative, also when a Quarry is
\* claimed from an empty supply.
C7_QuarryClaim ==
  /\ quarriesRemaining >= 0
  /\ [][ /\ quarriesRemaining' >= 0
         /\ YouStep("Settler", Quarry, NoValue) =>
              /\ sessionState'.quarries = sessionState.quarries + 1
              /\ sessionState'.opponent.quarries = sessionState.opponent.quarries
              /\ quarriesRemaining' = (IF quarriesRemaining >= 1 THEN quarriesRemaining - 1 ELSE 0)
              /\ faceUpPlantations' = faceUpPlantations
         /\ OppStep("Settler", Quarry, NoValue) =>
              /\ sessionState'.opponent.quarries = sessionState.opponent.quarries + 1
              /\ sessionState'.quarries = sessionState.quarries
              /\ quarriesRemaining' = (IF quarriesRemaining >= 1 THEN quarriesRemaining - 1 ELSE 0)
              /\ faceUpPlantations' = faceUpPlantations
       ]_vars

\* the shown Quarry candidate was clicked after the supply had been set to 0:
\* the player holds a quarry and the supply is still 0
C7_Witness ==
  /\ quarriesRemaining = 0
  /\ sessionState.quarries = 1
  /\ applied = 1
  /\ recommendations = << >>

\* C8 (as claimed): a purchase adds the building and deducts its cost only if
\* the player does not own it yet; for an owned building the owned list and
\* the money stay as they were.
C8_PurchaseOnlyIfNotOwned ==
  [][ \A b \in BuildingNames :
        /\ YouStep("Builder", NoValue, b) =>
             IF b \in Range(sessionState.buildings)
               THEN /\ sessionState'.buildings = sessionState.buildings
                    /\ yourDoubloons' = yourDoubloons
               ELSE /\ sessionState'.buildings = Append(sessionState.buildings, b)
                    /\ yourDoubloons' = Max(0, yourDoubloons - BUILDING_COSTS(b))
        /\ OppStep("Builder", NoValue, b) =>
             IF b \in Range(sessionState.opponent.buildings)
               THEN /\ sessionState'.opponent.buildings = sessionState.opponent.buildings
                    /\ oppDoubloons' = oppDoubloons
               ELSE /\ sessionState'.opponent.buildings = Append(sessionState.opponent.buildings, b)
                    /\ oppDoubloons' = Max(0, oppDoubloons - BUILDING_COSTS(b))
    ]_vars

NoDuplicates(s) == \A i, j \in 1..Len(s) : s[i] = s[j] => i = j

\* C9: in every state reached from a reset by applied moves, for both players
\* the owned-buildings list has no duplicate, the quarry count is >= 0 and the
\* money is >= 0 (a purchase dearer than the money leaves 0).
C9_BoardsWellFormed ==
  /\ NoDuplicates(sessionState.buildings)
  /\ NoDuplicates(sessionState.opponent.buildings)
  /\ sessionState.quarries >= 0
  /\ sessionState.opponent.quarries >= 0
  /\ yourDoubloons >= 0
  /\ oppDoubloons >= 0

\* the opponent, holding 2 doubloons, has bought the Indigo Plant (cost 3) as
\* the only move so far and is left with 0
C9_Witness ==
  /\ governor = "you"
  /\ applied = 1
  /\ sessionState.opponent.buildings = << "Indigo Plant" >>
  /\ oppDoubloons = 0

BoardsAndPools ==
  << sessionState.extraPlantations, sessionState.quarries, sessionState.buildings,
     sessionState.opponent, yourDoubloons, oppDoubloons, quarriesRemaining,
     faceUpPlantations >>

MissingFieldStep(role) ==
  YouStep(role, NoValue, NoValue) \/ OppStep(role, NoValue, NoValue)

\* C10 (as claimed): applying Builder with no building, or Settler with no
\* tile, changes nothing: boards, money, quarry supply, face-up row, role
\* availability and turnInRound are as before.
C10_MissingFieldNoOp ==
  [][ \A role \in {"Settler", "Builder"} :
        MissingFieldStep(role) =>
          /\ BoardsAndPools' = BoardsAndPools
          /\ checkedRoles' = checkedRoles
          /\ sessionState'.turnInRound = sessionState.turnInRound
    ]_vars

\* C10 (amended): applying Builder with no building, or Settler with no tile,
\* changes no board, money, quarry supply or face-up slot; it does mark the
\* role unavailable and advances turnInRound to min(turnInRound + 1, 7).
C10_MissingFieldKeepsBoards ==
  [][ \A role \in {"Settler", "Builder"} :
        MissingFieldStep(role) =>
          /\ BoardsAndPools' = BoardsAndPools
          /\ checkedRoles' = checkedRoles \ {role}
          /\ sessionState'.turnInRound = TurnAfter(sessionState.turnInRound)
    ]_vars

\* Builder was applied with no building as the only move so far: the role is
\* unchecked, the turn is 2, nobody owns a building and the money is untouched
C10_Witness ==
  /\ applied = 1
  /\ "Builder" \notin checkedRoles
  /\ sessionState.turnInRound = 2
  /\ sessionState.buildings = << >>
  /\ sessionState.opponent.buildings = << >>
  /\ yourDoubloons + oppDoubloons = 5

\* C11: a purchase naming a building the cost map lacks never fails: the
\* handler completes, the cost counts as 0, the building is in the acting
\* player's owned list afterwards and that player's money is as it was.
C11_UnknownBuildingIsFree ==
  [][ \A b \in NotInCostCatalog :
        /\ ENABLED applyChosenMove(sessionState, "Builder", NoValue, b)
        /\ ENABLED OppStep("Builder", NoValue, b)
        /\ YouStep("Builder", NoValue, b) =>
             /\ b \in Range(sessionState'.buildings)
             /\ Len(sessionState'.buildings)
                  = Len(sessionState.buildings) + (IF b \in Range(sessionState.buildings) THEN 0 ELSE 1)
             /\ yourDoubloons' = yourDoubloons
        /\ OppStep("Builder", NoValue, b) =>
             /\ b \in Range(sessionState'.opponent.buildings)
             /\ Len(sessionState'.opponent.buildings)
                  = Len(sessionState.opponent.buildings)
                      + (IF b \in Range(sessionState.opponent.buildings) THEN 0 ELSE 1)
             /\ oppDoubloons' = oppDoubloons
    ]_vars

\* both players have bought the unlisted building as the only moves so far and
\* hold the money the reset gave them
C11_Witness ==
  /\ applied = 2
  /\ sessionState.buildings = << "Chapel" >>
  /\ sessionState.opponent.buildings = << "Chapel" >>
  /\ yourDoubloons + oppDoubloons = 5

\* the moves the shown part of the list offers for a click
ShownChoices ==
  { << recommendations[i].role, recommendations[i].plantation, recommendations[i].building >> :
      i \in 1..Min(ShownCount, Len(recommendations)) }

RolesShown == { recommendations[i].role : i \in 1..Len(recommendations) }

\* C12: an applied move with role R, by either player, leaves R unavailable;
\* no applied move or reset makes an unavailable role available again; and the
\* list recommendMoves returned never holds a candidate whose role is
\* unavailable.
C12_RoleStaysUnavailable ==
  /\ RolesShown \subseteq checkedRoles
  /\ [][ /\ checkedRoles' \subseteq checkedRoles
         /\ RolesShown' \subseteq checkedRoles'
         /\ \A c \in RoundChoices \cup ShownChoices :
              (YouStep(c[1], c[2], c[3]) \/ OppStep(c[1], c[2], c[3])) =>
                c[1] \notin checkedRoles'
       ]_vars

\* two roles have been applied and the advisor was asked afterwards: its list
\* is not empty and names neither of them
C12_Witness ==
  /\ applied = 2
  /\ Cardinality(Roles \ checkedRoles) = 2
  /\ recommendations # << >>
  /\ RolesShown \cap (Roles \ checkedRoles) = {}
  /\ yourDoubloons = 4
  /\ sessionState.turnInRound = 3

\* C13: from any reachable state a reset (the governor passing to the other
\* player) leaves both extra-tile lists empty, both quarry counts 0, both
\* owned-building lists empty, the preference memory empty, turnInRound = 1,
\* roundNumber = 1, quarriesRemaining = 5, and 3 doubloons with the new
\* governor, 2 with the other player.
C13_ResetRestoresInitialValues ==
  [][ governor' # governor =>
        /\ sessionState'.extraPlantations = << >>
        /\ sessionState'.opponent.extraPlantations = << >>
        /\ sessionState'.quarries = 0
        /\ sessionState'.opponent.quarries = 0
        /\ sessionState'.buildings = << >>
        /\ sessionState'.opponent.buildings = << >>
        /\ DOMAIN sessionState'.feedbackCounts = {}
        /\ sessionState'.turnInRound = 1
        /\ sessionState'.roundNumber = 1
        /\ quarriesRemaining' = 5
        /\ yourDoubloons' = (IF governor' = "you" THEN 3 ELSE 2)
        /\ oppDoubloons' = (IF governor' = "opponent" THEN 3 ELSE 2)
    ]_vars

\* a reset made after a tile was claimed and a building bought: the session
\* is as at page load, the claimed slot is still empty and Settler and Builder
\* are still unchecked
C13_Witness ==
  /\ applied = 3
  /\ emptied = 0
  /\ sessionState = InitialSession
  /\ quarriesRemaining = 5
  /\ governor = "opponent"
  /\ yourDoubloons = 2
  /\ oppDoubloons = 3
  /\ Count(faceUpPlantations, None) = 1
  /\ "Sugar" \in Range(faceUpPlantations)
  /\ {"Settler", "Builder"} \cap checkedRoles = {}

\* the counts of `after` are those of `before` but for key, which is one higher
IncrementsOnly(before, after, key) ==
  /\ DOMAIN after = DOMAIN before \cup {key}
  /\ after[key] = CountOf(before, key) + 1
  /\ \A k \in DOMAIN before \ {key} : after[k] = before[k]

\* C14: between resets no preference-memory count decreases; a step that
\* changes the memory without a reset is a manual affirmation, never the
\* Recommend button, a click on a shown recommendation or an opponent move;
\* and every manual affirmation raises the count of exactly one key, the key
\* of the move affirmed, by exactly 1.
C14_OnlyAffirmationGrowsMemory ==
  [][ LET before == sessionState.feedbackCounts
          after == sessionState'.feedbackCounts
      IN /\ governor' = governor =>
              \A k \in DOMAIN before : k \in DOMAIN after /\ after[k] >= before[k]
         /\ (after # before /\ governor' = governor) =>
              /\ ~ ClickRecommend
              /\ \A c \in ShownChoices : ~ applyChosenMove(sessionState, c[1], c[2], c[3])
              /\ \A c \in PurchaseChoices : ~ OppStep(c[1], c[2], c[3])
              /\ \E c \in PurchaseChoices :
                   /\ IncrementsOnly(before, after, moveKey(c[1], c[2], c[3]))
                   /\ ManualApply(c[1], c[2], c[3])
         /\ \A c \in PurchaseChoices :
              ~ IncrementsOnly(before, after, moveKey(c[1], c[2], c[3]))
                => ~ ManualApply(c[1], c[2], c[3])
    ]_vars

\* one move was affirmed twice and nothing else: its key counts 2
C14_Witness ==
  /\ applied = 2
  /\ \E k \in DOMAIN sessionState.feedbackCounts :
       /\ sessionState.feedbackCounts[k] = 2
       /\ DOMAIN sessionState.feedbackCounts = {k}

CandidateKey(c) == moveKey(c.role, c.plantation, c.building)

\* the candidates as they would be enumerated with the memory `feedback`
EnumeratedWith(feedback) == Enumerated(readStateFromUI, feedback)

\* C15: every candidate of the returned list scores its heuristic score (the
\* score the same board gets with an empty preference memory) plus 0.3 times
\* the memory's count for the candidate's key (role, tile, building), without
\* a cap; one more affirmation of a candidate's key raises the score of the
\* candidates with that key by exactly 0.3 and leaves every other candidate's
\* score as it was.  (Scores in tenths.)
C15_PreferenceBonusLinear ==
  recommendations # << >> =>
    LET feedback == sessionState.feedbackCounts
        now == EnumeratedWith(feedback)
        plain == EnumeratedWith(<< >>)
    IN /\ Len(now) = Len(plain)
       /\ \A i \in 1..Len(now) :
            /\ CandidateKey(now[i]) = CandidateKey(plain[i])
            /\ now[i].score = plain[i].score + 3 * CountOf(feedback, CandidateKey(now[i]))
       /\ \A i \in 1..Len(recommendations) : \E j \in 1..Len(now) : recommendations[i] = now[j]
       /\ \A a \in 1..Len(now) :
            LET more == EnumeratedWith(recordFeedback(feedback, now[a].role,
                                                      now[a].plantation, now[a].building))
            IN /\ Len(more) = Len(now)
               /\ \A i \in 1..Len(now) :
                    more[i].score = now[i].score
                      + (IF CandidateKey(now[i]) = CandidateKey(now[a]) THEN 3 ELSE 0)

\* the list holds Captain, affirmed twice, at 0.2 + 0.6, and the twice-listed
\* Corn tile next to Sugar, affirmed once
C15_Witness ==
  /\ CountOf(sessionState.feedbackCounts, moveKey("Captain", NoValue, NoValue)) = 2
  /\ \E i \in 1..Len(recommendations) :
       recommendations[i].role = "Captain" /\ recommendations[i].score = 8
  /\ \E i \in 1..Len(recommendations) : recommendations[i].plantation = "Sugar"
  /\ Count([ i \in 1..Len(recommendations) |-> recommendations[i].plantation ], "Corn") = 2

\* C16: for every tile type R (base value B from the value table, 0 if R is
\* not listed), every pair of boards and every turn number,
\* scorePlantationChoice = B + synergy + deny + earlyBonus, with synergy =
\* (0.9 for Corn, 0.2 for Indigo, 0.6 otherwise, when R is the acting player's
\* starting tile) + (0.5 when R is nowhere on that player's board), deny = 0.4
\* when R is the opponent's starting tile, earlyBonus = 0.4 when turn <= 2;
\* so the score is never below B.  (Scores in tenths.)
C16_TileScoreFormula ==
  (scoring # << >> /\ scoring.tileScore # << >>) =>
    LET R == scoring.plantation
        B == IF R \in PlantationTypes THEN PLANTATION_VALUES_BASE(R) ELSE 0
        onBoard == R = scoring.you.startingPlantation
                     \/ R \in Range(scoring.you.extraPlantations)
        synergy == (IF R = scoring.you.startingPlantation
                      THEN (IF R = "Corn" THEN 9 ELSE IF R = "Indigo" THEN 2 ELSE 6)
                      ELSE 0)
                   + (IF onBoard THEN 0 ELSE 5)
        deny == IF R = scoring.opponent.startingPlantation THEN 4 ELSE 0
        earlyBonus == IF scoring.turnNumber <= 2 THEN 4 ELSE 0
    IN /\ scoring.tileScore[1] = B + synergy + deny + earlyBonus
       /\ scoring.tileScore[1] >= B

\* Sugar scored on turn 2 for a player who starts with Sugar and holds another,
\* against an opponent who starts with Sugar: 2.8 + 0.6 + 0.4 + 0.4
C16_Witness ==
  /\ scoring # << >>
  /\ scoring.plantation = "Sugar"
  /\ scoring.you.startingPlantation = "Sugar"
  /\ scoring.you.extraPlantations = << "Sugar" >>
  /\ scoring.opponent.startingPlantation = "Sugar"
  /\ scoring.turnNumber = 2
  /\ scoring.tileScore = << 42 >>

\* the drawn arguments are those of the scenario: the row is [A, B, "None"],
\* A the advised player's starting tile, B the opponent's, A # B, no extra
\* tiles, turn 1, and the advisor has answered
ScenarioA ==
  /\ scoring # << >>
  /\ scoring.advice # << >>
  /\ scoring.plantation = scoring.you.startingPlantation
  /\ scoring.plantation # scoring.opponent.startingPlantation
  /\ scoring.you.extraPlantations = << >>
  /\ scoring.turnNumber = 1

\* the score of the candidate claiming tile, in the advice given
AdvisedScore(tile) ==
  LET at == { i \in 1..Len(scoring.advice) :
                scoring.advice[i].role = "Settler" /\ scoring.advice[i].plantation = tile }
  IN scoring.advice[CHOOSE i \in at : TRUE].score

\* C17 (as claimed): for every pair of distinct tile types A and B, with the
\* row [A, B, "None"], the advised player starting with A, the opponent with
\* B, no extra tiles and turn 1, the candidate claiming A scores strictly
\* higher than the candidate claiming B.
C17_OwnStartingTileWins ==
  ScenarioA =>
    AdvisedScore(scoring.you.startingPlantation)
      > AdvisedScore(scoring.opponent.startingPlantation)

\* the pairs (A, B) for which the candidate claiming A wins
StartingTileWins ==
  { << "Corn", b >> : b \in PlantationTypes \ {"Corn"} }
    \cup { << "Sugar", "Indigo" >>, << "Sugar", "Tobacco" >>, << "Sugar", "Coffee" >>,
           << "Tobacco", "Indigo" >>, << "Coffee", "Indigo" >> }

\* C17 (amended): in that scenario the candidate claiming A scores strictly
\* higher than the candidate claiming B when A is Corn (any B), when A is Sugar
\* and B is not Corn, and when B is Indigo and A is Tobacco or Coffee; for
\* every other pair of distinct tile types the candidate claiming B scores
\* strictly higher.
C17_StartingTileWinsForSomePairs ==
  ScenarioA =>
    LET A == scoring.you.startingPlantation
        B == scoring.opponent.startingPlantation
    IN IF << A, B >> \in StartingTileWins
         THEN AdvisedScore(A) > AdvisedScore(B)
         ELSE AdvisedScore(A) < AdvisedScore(B)

\* the scenario with A = Corn and B = Sugar: 3.1 + 0.9 + 0.4 against
\* 2.8 + 0.5 + 0.4 + 0.4
C17_Witness ==
  /\ ScenarioA
  /\ scoring.you.startingPlantation = "Corn"
  /\ scoring.opponent.startingPlantation = "Sugar"
  /\ AdvisedScore("Corn") = 44
  /\ AdvisedScore("Sugar") = 41

QuarryScoreAt(q, turn) ==
  scoreQuarryChoice([ scoring.you EXCEPT !.quarries = q ], [ turnNumber |-> turn ])

\* C18: the Quarry score has diminishing returns: at a fixed turn number it
\* is strictly lower for every larger number of quarries the acting player
\* owns, and the score with 0 quarries at turn 2 is strictly higher than the
\* score with 2 quarries at turn 5.
C18_QuarryDiminishingReturns ==
  (scoring # << >> /\ scoring.quarryScore # << >>) =>
    /\ scoring.quarryScore[1] = QuarryScoreAt(scoring.you.quarries, scoring.turnNumber)
    /\ \A more \in (scoring.you.quarries + 1)..(MaxQuarries + 1) :
         QuarryScoreAt(more, scoring.turnNumber) < scoring.quarryScore[1]
    /\ (scoring.you.quarries = 0 /\ scoring.turnNumber = 2) =>
         scoring.quarryScore[1] > QuarryScoreAt(2, 5)

\* the Quarry scored on turn 2 for a player without quarries: 2.7 + 0.5 + 0.8,
\* against 2.4 with two quarries on turn 5
C18_Witness ==
  /\ scoring # << >>
  /\ scoring.you.quarries = 0
  /\ scoring.turnNumber = 2
  /\ scoring.quarryScore = << 40 >>
  /\ QuarryScoreAt(2, 5) = 24

PurchaseCandidatesShown ==
  { recommendations[i].building :
      i \in { k \in 1..Len(recommendations) : IsPurchaseCandidate(recommendations[k]) } }

\* C19: once the advised player has bought building X by an applied Builder
\* move, X stays in the owned list until the next reset, and no list
\* recommendMoves returns holds a purchase candidate for an owned building,
\* whatever the money input holds and also when Builder is available again.
C19_OwnedBuildingNotOffered ==
  /\ PurchaseCandidatesShown \cap Range(sessionState.buildings) = {}
  /\ [][ /\ PurchaseCandidatesShown' \cap Range(sessionState'.buildings) = {}
         /\ governor' = governor =>
              Range(sessionState.buildings) \subseteq Range(sessionState'.buildings)
         /\ \A c \in OwnedChoices \cup ShownChoices :
              (c[1] = "Builder" /\ c[3] # NoValue /\ YouStep(c[1], c[2], c[3])) =>
                c[3] \in Range(sessionState'.buildings)
       ]_vars

\* the player owns the Small Indigo Plant, Builder is ticked again and the
\* money would pay for it: the list offers the Small Market and not the plant
C19_Witness ==
  /\ "Small Indigo Plant" \in Range(sessionState.buildings)
  /\ "Builder" \in checkedRoles
  /\ yourDoubloons >= 1
  /\ "Small Market" \in PurchaseCandidatesShown
  /\ "Small Indigo Plant" \notin PurchaseCandidatesShown

\* the player whose pick turn t is when `holder` is the governor
PickOf(holder, t) ==
  IF t \in {1, 3, 5} THEN holder
  ELSE IF t \in {2, 4, 6} THEN (IF holder = "you" THEN "opponent" ELSE "you")
  ELSE "nobody"

\* C20: in every reachable state the pick shown is a function of turnInRound
\* and of who is governor alone: turns 1, 3, 5 are the governor's, turns
\* 2, 4, 6 the other player's, and at 7 the round is shown as complete with
\* nobody to pick.
C20_PickFollowsParity ==
  LET t == sessionState.turnInRound
      whose == PickOf(governor, t)
  IN /\ t \in 1..7
     /\ turnDisplay[3] = (IF whose = "you" THEN "your pick"
                          ELSE IF whose = "opponent" THEN "your opponent's pick"
                          ELSE "round complete")
     /\ t = 7 <=> turnDisplay[3] = "round complete"

\* after a reset that made the opponent governor, three moves later: turn 4
\* is shown as the advised player's pick
C20_Witness ==
  /\ governor = "opponent"
  /\ sessionState.turnInRound = 4
  /\ applied >= 4
  /\ turnDisplay = << 1, 4, "your pick" >>

\* C21 (as claimed): once turnInRound is 7 no pick takes effect: until the
\* reset no step changes a board, the money, the quarry supply, the face-up
\* row or the availability of a role.
C21_NoPickAfterRoundComplete ==
  [][ (sessionState.turnInRound = 7 /\ governor' = governor) =>
        /\ BoardsAndPools' = BoardsAndPools
        /\ checkedRoles' = checkedRoles
    ]_vars

YourBoard == << sessionState.extraPlantations, sessionState.quarries, sessionState.buildings >>

SharedPools == << quarriesRemaining, faceUpPlantations >>

\* C22: applying Prospector adds exactly 1 to the acting player's money and
\* changes nothing else on either board; applying Mayor, Craftsman, Trader or
\* Captain changes no tile, quarry, building, money or shared pool of either
\* player; each marks the role unavailable and advances the turn counter.
C22_SecondaryRoleEffects ==
  [][ \A c \in SecondaryChoices :
        /\ YouStep(c[1], c[2], c[3]) =>
             /\ yourDoubloons' = yourDoubloons + (IF c[1] = "Prospector" THEN 1 ELSE 0)
             /\ oppDoubloons' = oppDoubloons
             /\ YourBoard' = YourBoard
             /\ sessionState'.opponent = sessionState.opponent
             /\ SharedPools' = SharedPools
             /\ checkedRoles' = checkedRoles \ {c[1]}
             /\ sessionState'.turnInRound = TurnAfter(sessionState.turnInRound)
        /\ OppStep(c[1], c[2], c[3]) =>
             /\ oppDoubloons' = oppDoubloons + (IF c[1] = "Prospector" THEN 1 ELSE 0)
             /\ yourDoubloons' = yourDoubloons
             /\ YourBoard' = YourBoard
             /\ sessionState'.opponent = sessionState.opponent
             /\ SharedPools' = SharedPools
             /\ checkedRoles' = checkedRoles \ {c[1]}
             /\ sessionState'.turnInRound = TurnAfter(sessionState.turnInRound)
    ]_vars

\* the advised player has affirmed Captain with a tile and a building still
\* selected, the opponent has taken Prospector: one doubloon more for the
\* opponent, nothing else on the boards
C22_Witness ==
  /\ applied = 2
  /\ governor = "you"
  /\ moveKey("Captain", "Corn", "Small Indigo Plant") \in DOMAIN sessionState.feedbackCounts
  /\ checkedRoles = Roles \ {"Captain", "Prospector"}
  /\ yourDoubloons = 3
  /\ oppDoubloons = 3
  /\ YourBoard = << << >>, 0, << >> >>
  /\ sessionState.opponent.buildings = << >>
  /\ faceUpPlantations \in InitialRows

\* the catalog entry of a building the advisor offers
CatalogEntry(name) ==
  BUILDINGS[CHOOSE i \in 1..Len(BUILDINGS) : BUILDINGS[i].name = name]

\* C23 (as claimed): a production building whose crop is the advised player's
\* starting tile, while the player holds no extra tile of that crop, scores
\* with the smaller synergy bonus of 1.0 (not 1.5): base value + 1.0
\* + 0.3 per quarry - 0.2 per doubloon of cost, plus the preference bonus.
C23_StartingCropSmallerBonus ==
  \A i \in 1..Len(recommendations) :
    LET c == recommendations[i]
        you == readStateFromUI.you
    IN (/\ IsPurchaseCandidate(c)
        /\ CatalogEntry(c.building).type = "production"
        /\ CatalogEntry(c.building).crop = you.startingPlantation
        /\ Count(you.extraPlantations, you.startingPlantation) = 0) =>
         c.score = CatalogEntry(c.building).baseValue + 10 + 3 * you.quarries
                     - 2 * CatalogEntry(c.building).cost
                     + 3 * CountOf(sessionState.feedbackCounts, CandidateKey(c))

\* the board with one more tile of the type: the type is then present, so
\* plantationSynergyBonus gives the starting-tile term alone
BoardHolding(plantation, you) ==
  [ you EXCEPT !.extraPlantations = @ \o << plantation >> ]

StartingMatchBonus(plantation, you) ==
  plantationSynergyBonus(plantation, BoardHolding(plantation, you))

DiversificationBonus(plantation, you) ==
  plantationSynergyBonus(plantation, you) - StartingMatchBonus(plantation, you)

ExplainedScoreSplits ==
  scoring.explained[1].score =
    PLANTATION_VALUES_BASE(scoring.plantation)
    + StartingMatchBonus(scoring.plantation, scoring.you)
    + DiversificationBonus(scoring.plantation, scoring.you)
    + plantationDenyBonus(scoring.plantation, scoring.opponent)
    + (IF scoring.turnNumber <= 2 THEN 4 ELSE 0)

\* C24: for a face-up tile candidate (not the quarry) the explanation has the
\* "matches your starting plantation" sentence exactly when the starting-tile
\* synergy bonus is part of its score, and the "denies the opponent" sentence
\* exactly when the denial bonus is part of its score.
C24_MatchAndDenyClausesFollowScore ==
  (scoring # << >> /\ scoring.explained # << >> /\ scoring.plantation # Quarry) =>
    LET said == Range(scoring.explained[1].explanation)
    IN /\ ExplainedScoreSplits
       /\ MatchesClause \in said
            <=> StartingMatchBonus(scoring.plantation, scoring.you) > 0
       /\ DeniesClause \in said
            <=> plantationDenyBonus(scoring.plantation, scoring.opponent) > 0

\* Sugar for a Sugar starter against a Sugar starter: both sentences, both bonuses
C24_Witness ==
  /\ scoring # << >>
  /\ scoring.explained # << >>
  /\ scoring.plantation = "Sugar"
  /\ scoring.you.startingPlantation = "Sugar"
  /\ scoring.opponent.startingPlantation = "Sugar"
  /\ scoring.turnNumber = 3
  /\ scoring.you.extraPlantations = << >>
  /\ scoring.explained[1].score = 28 + 6 + 4
  /\ MatchesClause \in Range(scoring.explained[1].explanation)
  /\ DeniesClause \in Range(scoring.explained[1].explanation)

\* C25 (as claimed): the "diversifies your plantations" sentence is in the
\* explanation exactly when the diversification bonus (0.5, tile type on
\* neither the starting tile nor the extra tiles) is part of the score.
C25_DiversifiesClauseFollowsScore ==
  (scoring # << >> /\ scoring.explained # << >> /\ scoring.plantation # Quarry) =>
    (DiversifiesClause \in Range(scoring.explained[1].explanation)
       <=> DiversificationBonus(scoring.plantation, scoring.you) > 0)

\* C26: from the reset on, whatever moves of either player are applied, the
\* quarries are conserved: the advised player's quarries, the opponent's and
\* the supply left add up to the full supply of 5.
C26_QuarriesConserved ==
  sessionState.quarries + sessionState.opponent.quarries + quarriesRemaining = QuarrySupply

\* the supply is used up, both players holding quarries
C26_Witness ==
  /\ quarriesRemaining = 0
  /\ sessionState.quarries = 2
  /\ sessionState.opponent.quarries = 3
  /\ applied > QuarrySupply

\* C27: a move of the advised player (a clicked recommendation or the manual
\* panel) leaves the opponent's tiles, quarries, buildings and money as they
\* were; a move of the opponent leaves the advised player's tiles, quarries,
\* buildings, money and the preference memory (and the pick selector) as they
\* were.
C27_PlayerIsolation ==
  [][ \A c \in IsolationChoices \cup ShownChoices :
        /\ YouStep(c[1], c[2], c[3]) =>
             /\ sessionState'.opponent = sessionState.opponent
             /\ oppDoubloons' = oppDoubloons
        /\ OppStep(c[1], c[2], c[3]) =>
             /\ YourBoard' = YourBoard
             /\ yourDoubloons' = yourDoubloons
             /\ sessionState'.feedbackCounts = sessionState.feedbackCounts
             /\ turnNumber' = turnNumber
    ]_vars

\* the advised player has taken a quarry, the opponent a Corn tile and the
\* Small Indigo Plant: each board and purse shows its own moves only
C27_Witness ==
  /\ applied = 3
  /\ governor = "you"
  /\ YourBoard = << << >>, 1, << >> >>
  /\ yourDoubloons = 3
  /\ sessionState.opponent =
       [ extraPlantations |-> << "Corn" >>, quarries |-> 0,
         buildings |-> << "Small Indigo Plant" >> ]
  /\ oppDoubloons = 1
  /\ quarriesRemaining = QuarrySupply - 1

PickSelectorInStep ==
  /\ turnNumber \in Range(yourPicks(governor))
  /\ PickOf(governor, sessionState.turnInRound) = "you" => turnNumber = sessionState.turnInRound

\* C28: when the moves are applied in turn from the reset on, the governor
\* first, then in every state where the pick is the advised player's the pick
\* selector (the turn number the scores use) equals turnInRound; the selector
\* is always one of the advised player's picks and no step but a reset lowers it.
C28_PickSelectorTracksTurn ==
  /\ PickSelectorInStep
  /\ [][ /\ PickSelectorInStep'
         /\ governor' = governor => turnNumber' >= turnNumber
       ]_vars

\* the opponent is governor; after a reset and three moves in turn, turn 4 is
\* the advised player's and the selector shows 4
C28_Witness ==
  /\ governor = "opponent"
  /\ applied >= 4
  /\ sessionState.turnInRound = 4
  /\ turnNumber = 4
  /\ sessionState.opponent.quarries = 1

\* C29: a reset changes neither the role checkboxes nor the face-up row: a
\* role unchecked and a slot showing "None" before it are so after it, while
\* turnInRound is back to 1 and both boards are empty.
C29_ResetKeepsRolesAndRow ==
  [][ governor' # governor =>
        /\ checkedRoles' = checkedRoles
        /\ faceUpPlantations' = faceUpPlantations
        /\ sessionState'.turnInRound = 1
        /\ YourBoard' = << << >>, 0, << >> >>
        /\ sessionState'.opponent = InitialSession.opponent
    ]_vars

\* a Corn tile was claimed and the Prospector taken, then the governor
\* changed: the session is as at page load, the first slot still shows
\* "None" and both roles are still unchecked
C29_Witness ==
  /\ applied = 3
  /\ governor = "you"
  /\ sessionState = InitialSession
  /\ faceUpPlantations = << None, "Sugar", "Corn" >>
  /\ checkedRoles = Roles \ {"Settler", "Prospector"}

\* what applying the purchase candidate c does to the advised player's money
\* and buildings, in the state the list was computed in
PurchaseDeductsFilterCost(c) ==
  LET cost == CatalogEntry(c.building).cost
  IN /\ cost <= yourDoubloons
     /\ BUILDING_COSTS(c.building) = cost
     /\ PayFor(yourDoubloons, c.building) = yourDoubloons - cost
     /\ yourDoubloons - cost >= 0
     /\ c.building \notin Range(sessionState.buildings)
     /\ AddBuilding(sessionState.buildings, c.building)
          = Append(sessionState.buildings, c.building)

EveryPurchaseCandidatePayable ==
  \A i \in 1..Len(recommendations) :
    IsPurchaseCandidate(recommendations[i]) => PurchaseDeductsFilterCost(recommendations[i])

\* C30: for every purchase candidate recommendMoves returned, applying it in
\* the state it was computed in adds the building to the advised player's
\* buildings and lowers the advised player's money by exactly the cost the
\* affordability filter used (the cost map agrees with the scoring catalog),
\* so the money stays >= 0 and the clamp at 0 does not act.
C30_PurchaseDeductsFilterCost ==
  /\ EveryPurchaseCandidatePayable
  /\ [][ /\ EveryPurchaseCandidatePayable'
         /\ \A c \in ShownChoices :
              (c[3] # NoValue /\ applyChosenMove(sessionState, c[1], c[2], c[3])) =>
                /\ sessionState'.buildings = Append(sessionState.buildings, c[3])
                /\ yourDoubloons' = yourDoubloons - CatalogEntry(c[3]).cost
                /\ yourDoubloons' >= 0
       ]_vars

\* the advised player, governor with 3 doubloons, has clicked the recommended
\* Small Indigo Plant (no affirmation recorded): it is owned and 2 doubloons
\* are left
C30_Witness ==
  /\ applied = 1
  /\ governor = "you"
  /\ sessionState.buildings = << "Small Indigo Plant" >>
  /\ DOMAIN sessionState.feedbackCounts = {}
  /\ yourDoubloons = 2
  /\ turnNumber = 3
  /\ "Builder" \notin checkedRoles

====
